---- MODULE Spec2Model ----
(***************************************************************************)
(* Model of batch-convert.py: the directory scan, the dry-run report, the  *)
(* per-file loop (duration probe, encoder launch, progress supervision,    *)
(* wait and result line) and the encoder child process with its two pipes. *)
(*                                                                         *)
(* Paths are records [dir, name]; a file name is the sequence of its       *)
(* dot-separated components (<<"a","mkv">> is "a.mkv", <<"","mkv">> is the *)
(* hidden file ".mkv").  Times in seconds are kept in tenths of a second.  *)
(***************************************************************************)
EXTENDS Integers, Sequences, FiniteSets, TLC

VARIABLES
    fs,                \* indices (into FsList) of the entries present under the directory
    dry_run,           \* the --dry-run flag
    files_to_convert,  \* the discovered paths, in walk order
    pc,                \* position of the single thread of control
    idx,               \* index of input_path in files_to_convert
    duration,          \* result of get_video_duration, tenths of a second
    proc,              \* per file: the encoder child and its two pipes
    current_time,      \* last observed elapsed time, tenths of a second
    pbar,              \* the progress reporter: n (sum of updates) and the updates received
    seen,              \* the elapsed times of the records matched for the current file
    outcome,           \* per file: the result lines printed for it
    probes,            \* per file: what each ffprobe invocation did
    launches,          \* per file: number of ffmpeg launch attempts
    report             \* the dry-run lines printed

vars == <<fs, dry_run, files_to_convert, pc, idx, duration, proc, current_time,
          pbar, seen, outcome, probes, launches, report>>

----------------------------------------------------------------------------
(* Bounds *)

MaxEntries == 2     \* entries present under the scanned directory
MaxLines == 3       \* stdout lines one encoder child writes
OutCap == 1         \* lines the stdout pipe holds before a write blocks
ErrCap == 1         \* chunks the stderr pipe holds before a write blocks
MaxErr == ErrCap + 1 \* stderr chunks one encoder child writes

(* Program constants *)

USPerSecond == 1000000

----------------------------------------------------------------------------
(* The file system and path handling *)

FsList ==
    << [dir |-> "v", name |-> <<"a", "mkv">>],
       [dir |-> "v", name |-> <<"a", "AVI">>],
       [dir |-> "w", name |-> <<"a", "mkv">>],
       [dir |-> "v", name |-> <<"a", "mp4">>],
       [dir |-> "v", name |-> <<"", "mkv">>] >>

video_extensions == {"mkv", "mov", "avi", "webm", "flv", "wmv"}

Lower(s) ==
    CASE s = "AVI" -> "avi"
      [] s = "MKV" -> "mkv"
      [] s = "MP4" -> "mp4"
      [] OTHER -> s

\* os.path.splitext on the last path component: the extension starts at the
\* last dot, unless only dots (empty components) precede it.
HasExt(name) ==
    /\ Len(name) >= 2
    /\ \E k \in 1..(Len(name) - 1) : name[k] # ""

SplitBase(name) == IF HasExt(name) THEN SubSeq(name, 1, Len(name) - 1) ELSE name

SplitExt(name) == IF HasExt(name) THEN name[Len(name)] ELSE ""

IsVideo(path) == Lower(SplitExt(path.name)) \in video_extensions

Basename(path) == path.name

\* Variant of OutputPath: the target built from the base name alone.
OutputPathMutNoDir(path) ==
    [dir |-> "", name |-> Append(SplitBase(path.name), "mp4")]

\* lines 95-96: file_base, _ = splitext(input_path); output_path = file_base + ".mp4"
OutputPath(path) ==
    [dir |-> path.dir, name |-> Append(SplitBase(path.name), "mp4")]

\* Variant of DryRunOutputPath: the extension is not replaced.
DryRunOutputPathMutKeepExt(path) == path

\* lines 88-89: the same computation in the dry-run branch
DryRunOutputPath(path) ==
    [dir |-> path.dir, name |-> Append(SplitBase(path.name), "mp4")]

\* lines 71-76: os.walk over the entries present, keeping the video files
Walk(present) ==
    LET order == [i \in 1..Len(FsList) |-> i]
        kept == SelectSeq(order, LAMBDA i : i \in present /\ IsVideo(FsList[i]))
    IN  [k \in 1..Len(kept) |-> FsList[kept[k]]]

----------------------------------------------------------------------------
(* Inputs drawn from small sets *)

\* What one run of ffprobe does: prints a number, is missing (FileNotFoundError),
\* exits non-zero (CalledProcessError) or prints something float() rejects (ValueError).
\* These are the cases get_video_duration distinguishes; an exception it does
\* not catch (another OSError of subprocess.run) is not among them.
ProbeResults == {"ok", "notfound", "nonzero", "unparsable"}

Durations == {15, 30}

\* What Popen does: starts the child, FileNotFoundError, or another OSError.
PopenResults == {"ok", "notfound", "oserror"}

TimeValuesUs == {1000000, 2500000}

\* The lines an encoder child may write to stdout.  A pipe is modelled by the
\* number of lines in it; what a line says is drawn when the supervisor reads
\* it, which is when it is first observed.
Lines ==
    [key : {"out_time_ms"}, digits : {TRUE}, val : TimeValuesUs]
    \cup { [key |-> "frame", digits |-> TRUE, val |-> 1000000] }

ExitCodes == {0, 1}

SigPipe == 0 - 13

----------------------------------------------------------------------------
(* Helpers of the loop body *)

NoProc ==
    [st |-> "none", outLeft |-> 0, errLeft |-> 0, rc |-> 0, outBuf |-> 0,
     errBuf |-> 0, open |-> FALSE, target |-> [dir |-> "", name |-> <<>>]]

N == Len(files_to_convert)

IsLast == idx >= N

\* The Popen object of the previous iteration is dropped when `process` is
\* rebound or the function returns: the parent's ends of its pipes close.
ClosedAll(p) ==
    [j \in DOMAIN p |-> [p[j] EXCEPT !.open = FALSE, !.outBuf = 0, !.errBuf = 0]]

Text(n) == [k \in 1..n |-> "stderr"]

Success == [kind |-> "Success", diag |-> <<>>]

Skipped == [kind |-> "Skipped", diag |-> <<"no duration">>]

FailedWith(text) == [kind |-> "Failed", diag |-> text]

Logged(o) == [outcome EXCEPT ![idx] = Append(@, o)]

\* line 126: time_re.search(line)
Match(line) == line.key = "out_time_ms" /\ line.digits

\* lines 133-134: elapsed_s = int(match.group(1)) / 1_000_000, in tenths of a second
ElapsedS(line) == (line.val * 10) \div USPerSecond

\* Variant of Delta: the absolute elapsed time is reported.
DeltaMutAbsolute(elapsed, cur) == elapsed

\* line 136: the argument of pbar.update
Delta(elapsed, cur) == elapsed - cur

NoBar == [n |-> 0, deltas |-> <<>>]

\* The end of one iteration of the for loop at line 94: the next file, or line 155.
Continue(procNow) ==
    /\ pc' = IF IsLast THEN "complete" ELSE "probe"
    /\ idx' = IF IsLast THEN idx ELSE idx + 1
    /\ proc' = IF IsLast THEN ClosedAll(procNow) ELSE procNow
    /\ duration' = 0
    /\ current_time' = 0
    /\ pbar' = NoBar
    /\ seen' = <<>>

\* lines 151-152: except Exception, the loop goes on
HandleException ==
    /\ outcome' = Logged(FailedWith(<<"unexpected error">>))
    /\ Continue(proc)
    /\ UNCHANGED <<probes, launches>>

\* Variant of HandleFileNotFound: the loop goes on instead of returning.
HandleFileNotFoundMutContinue ==
    /\ outcome' = Logged(FailedWith(<<"ffmpeg not found">>))
    /\ Continue(proc)

\* lines 148-150: except FileNotFoundError, return
HandleFileNotFound ==
    /\ outcome' = Logged(FailedWith(<<"ffmpeg not found">>))
    /\ pc' = "aborted"
    /\ proc' = ClosedAll(proc)
    /\ UNCHANGED <<idx, duration, current_time, pbar, seen>>

\* Variant of SkipFile: return instead of continue.
SkipFileMutReturn ==
    /\ outcome' = Logged(Skipped)
    /\ pc' = "aborted"
    /\ proc' = ClosedAll(proc)
    /\ UNCHANGED <<idx, duration, current_time, pbar, seen>>

\* Variant of SkipFile: the continue is missing, the encoder is launched anyway.
SkipFileMutFallThrough ==
    /\ outcome' = Logged(Skipped)
    /\ pc' = "launch"
    /\ UNCHANGED <<idx, duration, current_time, pbar, seen, proc>>

\* lines 103-104: duration is None, continue
SkipFile ==
    /\ outcome' = Logged(Skipped)
    /\ Continue(proc)

----------------------------------------------------------------------------
(* The supervisor: one action per step of convert_videos_to_mp4 *)

Init ==
    /\ fs \in {s \in SUBSET (1..Len(FsList)) : Cardinality(s) <= MaxEntries}
    /\ dry_run \in BOOLEAN
    /\ files_to_convert = <<>>
    /\ pc = "scan"
    /\ idx = 0
    /\ duration = 0
    /\ proc = <<>>
    /\ current_time = 0
    /\ pbar = NoBar
    /\ seen = <<>>
    /\ outcome = <<>>
    /\ probes = <<>>
    /\ launches = <<>>
    /\ report = <<>>

\* lines 67-84 and 92-94: scan, then nothing to do, the dry run, or the loop
Scan ==
    /\ pc = "scan"
    /\ files_to_convert' = Walk(fs)
    /\ LET n == Len(Walk(fs)) IN
        /\ pc' = IF n = 0 THEN "nofiles" ELSE IF dry_run THEN "dryrun" ELSE "probe"
        /\ idx' = IF n = 0 THEN 0 ELSE 1
        /\ proc' = [i \in 1..n |-> NoProc]
        /\ outcome' = [i \in 1..n |-> <<>>]
        /\ probes' = [i \in 1..n |-> <<>>]
        /\ launches' = [i \in 1..n |-> 0]
    /\ UNCHANGED <<fs, dry_run, duration, current_time, pbar, seen, report>>

\* lines 87-92: one line of the dry-run report
DryRunLine ==
    /\ pc = "dryrun"
    /\ LET input_path == files_to_convert[idx] IN
        report' = Append(report,
                         <<Basename(input_path), Basename(DryRunOutputPath(input_path))>>)
    /\ pc' = IF IsLast THEN "dryrun_end" ELSE "dryrun"
    /\ idx' = IF IsLast THEN idx ELSE idx + 1
    /\ UNCHANGED <<fs, dry_run, files_to_convert, duration, proc, current_time, pbar,
                   seen, outcome, probes, launches>>

\* lines 102-104 with get_video_duration, lines 42-60
Probe ==
    /\ pc = "probe"
    /\ \E r \in ProbeResults :
        /\ probes' = [probes EXCEPT ![idx] = Append(@, r)]
        /\ IF r = "ok"
           THEN /\ \E d \in Durations : duration' = d
                /\ pc' = "launch"
                /\ UNCHANGED <<idx, proc, current_time, pbar, seen, outcome>>
           ELSE SkipFile
    /\ UNCHANGED <<fs, dry_run, files_to_convert, launches, report>>

\* lines 107-127: build the command, Popen, current_time = 0
Launch ==
    /\ pc = "launch"
    /\ launches' = [launches EXCEPT ![idx] = @ + 1]
    /\ \E r \in PopenResults :
        CASE r = "ok" ->
               /\ \E o \in 0..MaxLines, e \in 0..MaxErr :
                    proc' = [ClosedAll(proc) EXCEPT ![idx] =
                               [st |-> "running", outLeft |-> o, errLeft |-> e, rc |-> 0,
                                outBuf |-> 0, errBuf |-> 0, open |-> TRUE,
                                target |-> OutputPath(files_to_convert[idx])]]
               /\ current_time' = 0
               /\ pc' = "open"
               /\ UNCHANGED <<idx, duration, pbar, seen, outcome>>
          [] r = "notfound" -> HandleFileNotFound
          [] r = "oserror" ->
               /\ outcome' = Logged(FailedWith(<<"unexpected error">>))
               /\ Continue(proc)
    /\ UNCHANGED <<fs, dry_run, files_to_convert, probes, report>>

\* line 129: tqdm(total=int(duration), ...) and its __enter__; duration is not
\* read after this line, and the bar's total plays no part in what follows
OpenBar ==
    /\ pc = "open"
    /\ \E ok \in BOOLEAN :
        IF ok
        THEN /\ pbar' = NoBar
             /\ duration' = 0
             /\ pc' = "read"
             /\ UNCHANGED <<idx, proc, current_time, seen, outcome, probes, launches>>
        ELSE HandleException
    /\ UNCHANGED <<fs, dry_run, files_to_convert, report>>

\* lines 130-137: one line of process.stdout
ReadLine ==
    /\ pc = "read"
    /\ proc[idx].outBuf > 0
    /\ \E line \in Lines :
       LET rest == [proc EXCEPT ![idx].outBuf = @ - 1]
       IN  IF Match(line)
           THEN \E ok \in BOOLEAN :
                  IF ok
                  THEN /\ pbar' = [pbar EXCEPT
                                     !.n = @ + Delta(ElapsedS(line), current_time),
                                     !.deltas = Append(@, Delta(ElapsedS(line), current_time))]
                       /\ current_time' = ElapsedS(line)
                       /\ seen' = Append(seen, ElapsedS(line))
                       /\ proc' = rest
                       /\ UNCHANGED <<pc, idx, duration, outcome>>
                  ELSE /\ outcome' = Logged(FailedWith(<<"unexpected error">>))
                       /\ Continue(rest)
           ELSE /\ proc' = rest
                /\ UNCHANGED <<pc, idx, duration, current_time, pbar, seen, outcome>>
    /\ UNCHANGED <<fs, dry_run, files_to_convert, probes, launches, report>>

\* lines 129-130: stdout is at end of file, the with block closes the bar
ReadEOF ==
    /\ pc = "read"
    /\ proc[idx].outBuf = 0
    /\ proc[idx].st = "exited"
    /\ \E ok \in BOOLEAN :
        IF ok
        THEN /\ pc' = "wait"
             /\ UNCHANGED <<idx, duration, proc, current_time, pbar, seen, outcome,
                            probes, launches>>
        ELSE HandleException
    /\ UNCHANGED <<fs, dry_run, files_to_convert, report>>

\* lines 140-146: process.wait(), then the result line
Wait ==
    /\ pc = "wait"
    /\ proc[idx].st = "exited"
    /\ outcome' = Logged(IF proc[idx].rc # 0
                         THEN FailedWith(Text(proc[idx].errBuf))
                         ELSE Success)
    /\ Continue(proc)
    /\ UNCHANGED <<fs, dry_run, files_to_convert, probes, launches, report>>

----------------------------------------------------------------------------
(* The encoder child of file i *)

ChildWriteOut(i) ==
    /\ proc[i].st = "running"
    /\ proc[i].outLeft > 0
    /\ IF proc[i].open
       THEN /\ proc[i].outBuf < OutCap
            /\ proc' = [proc EXCEPT ![i].outBuf = @ + 1, ![i].outLeft = @ - 1]
       ELSE proc' = [proc EXCEPT ![i].st = "exited", ![i].rc = SigPipe,
                                 ![i].outLeft = 0, ![i].errLeft = 0]
    /\ UNCHANGED <<fs, dry_run, files_to_convert, pc, idx, duration, current_time, pbar,
                   seen, outcome, probes, launches, report>>

ChildWriteErr(i) ==
    /\ proc[i].st = "running"
    /\ proc[i].errLeft > 0
    /\ IF proc[i].open
       THEN /\ proc[i].errBuf < ErrCap
            /\ proc' = [proc EXCEPT ![i].errBuf = @ + 1, ![i].errLeft = @ - 1]
       ELSE proc' = [proc EXCEPT ![i].st = "exited", ![i].rc = SigPipe,
                                 ![i].outLeft = 0, ![i].errLeft = 0]
    /\ UNCHANGED <<fs, dry_run, files_to_convert, pc, idx, duration, current_time, pbar,
                   seen, outcome, probes, launches, report>>

ChildExit(i) ==
    /\ proc[i].st = "running"
    /\ proc[i].outLeft = 0
    /\ proc[i].errLeft = 0
    /\ \E c \in ExitCodes : proc' = [proc EXCEPT ![i].st = "exited", ![i].rc = c]
    /\ UNCHANGED <<fs, dry_run, files_to_convert, pc, idx, duration, current_time, pbar,
                   seen, outcome, probes, launches, report>>

Next ==
    \/ Scan
    \/ DryRunLine
    \/ Probe
    \/ Launch
    \/ OpenBar
    \/ ReadLine
    \/ ReadEOF
    \/ Wait
    \/ \E i \in DOMAIN proc : ChildWriteOut(i)
    \/ \E i \in DOMAIN proc : ChildWriteErr(i)
    \/ \E i \in DOMAIN proc : ChildExit(i)

Spec == Init /\ [][Next]_vars

----------------------------------------------------------------------------
(* Vocabulary of the properties *)

Files == DOMAIN proc

Launched(i) == proc[i].st # "none"

Active(i) == proc[i].st = "running"

EncoderMissing(i) ==
    \E k \in DOMAIN outcome[i] : outcome[i][k].diag = <<"ffmpeg not found">>

\* The child of file i can take no step: every write it still has to do is
\* to stderr, and the stderr pipe is full.
BlockedOnStderr(i) ==
    /\ Active(i)
    /\ proc[i].open
    /\ proc[i].outLeft = 0
    /\ proc[i].errLeft > 0
    /\ proc[i].errBuf >= ErrCap

\* The supervisor waits for a line of file i's stdout and none is in the pipe.
BlockedOnStdout(i) ==
    /\ pc = "read"
    /\ idx = i
    /\ proc[i].outBuf = 0
    /\ Active(i)

Sources == {files_to_convert[k] : k \in DOMAIN files_to_convert}

----------------------------------------------------------------------------
(* C1: the child is never blocked writing stderr while the supervisor is    *)
(* blocked reading that child's stdout.                                     *)
C1_NoPipeDeadlock ==
    \A i \in Files : ~(BlockedOnStderr(i) /\ BlockedOnStdout(i))

(* C2: a missing encoder binary aborts the batch: at most one launch fails  *)
(* that way, the run is then in its aborted end state, no file after the    *)
(* current one has been probed or launched, and from then on no probe and   *)
(* no launch happens and "conversion process complete" is not reached.      *)
C2_AbortState ==
    /\ Cardinality({i \in Files : EncoderMissing(i)}) <= 1
    /\ \A i \in Files :
         EncoderMissing(i) =>
           /\ Len(outcome[i]) = 1
           /\ pc = "aborted"
           /\ idx = i
           /\ \A j \in Files : j > i => probes[j] = <<>> /\ launches[j] = 0
    /\ pc = "aborted" => \E i \in Files : EncoderMissing(i)

C2_MissingEncoderAborts ==
    /\ []C2_AbortState
    /\ [][(\E i \in Files : EncoderMissing(i))
            => /\ probes' = probes
               /\ launches' = launches
               /\ pc' = "aborted"]_vars

C2_Witness ==
    /\ pc = "aborted"
    /\ idx = 1
    /\ N = 2
    /\ EncoderMissing(1)
    /\ launches[1] = 1

C4_DryRun ==
    dry_run =>
      /\ \A i \in Files : probes[i] = <<>> /\ launches[i] = 0 /\ ~Launched(i)
      /\ Len(report) <= N
      /\ \A k \in DOMAIN report :
           report[k] = <<Basename(files_to_convert[k]),
                         Basename(OutputPath(files_to_convert[k]))>>
      /\ pc \in {"scan", "nofiles", "dryrun", "dryrun_end"}
      /\ pc = "dryrun_end" => Len(report) = N

C4_Witness ==
    /\ dry_run
    /\ pc = "dryrun_end"
    /\ Len(report) = 2
    /\ report[2] = << <<"a", "AVI">>, <<"a", "mp4">> >>

(* C5: for every launched child that has exited and whose file has its      *)
(* result: exit status 0 gives Success, any other status gives Failed with  *)
(* non-empty diagnostic text.                                               *)
C5_OutcomeFromExitStatus ==
    \A i \in Files :
      (proc[i].st = "exited" /\ outcome[i] # <<>>) =>
        /\ proc[i].rc = 0 => outcome[i][1].kind = "Success"
        /\ proc[i].rc # 0 =>
             outcome[i][1].kind = "Failed" /\ outcome[i][1].diag # <<>>

(* C6: at most one encoder child is active at any time.                     *)
C6_OneActiveChild ==
    Cardinality({i \in Files : Active(i)}) <= 1

(* C7 as stated: the reported total equals the last observed elapsed time   *)
(* and no negative delta is ever reported, whatever the encoder writes.     *)
C7_NoNegativeDelta ==
    /\ pbar.n = current_time
    /\ \A k \in DOMAIN pbar.deltas : pbar.deltas[k] >= 0

(* C7 as amended: every matching record reports the difference between its  *)
(* elapsed time and the previously observed one (0 at first), so the        *)
(* reported total equals the last observed elapsed time; a reported delta   *)
(* is negative exactly when a record is smaller than its predecessor.       *)
C7_DeltaTracksObserved ==
    /\ pbar.n = current_time
    /\ current_time = (IF seen = <<>> THEN 0 ELSE seen[Len(seen)])
    /\ Len(pbar.deltas) = Len(seen)
    /\ \A k \in DOMAIN seen :
         LET prev == IF k = 1 THEN 0 ELSE seen[k - 1] IN
           /\ pbar.deltas[k] = seen[k] - prev
           /\ pbar.deltas[k] < 0 <=> seen[k] < prev

C7_Witness ==
    /\ seen = <<10, 25, 25>>
    /\ pbar.deltas = <<10, 15, 0>>
    /\ pbar.n = 25

(* C8: once the encoder child runs, the file's result is logged only after  *)
(* the child has exited and is Success exactly when the exit status is 0,   *)
(* also when the progress reporter fails.                                   *)
C8_ProgressNeverGates ==
    \A i \in Files :
      (Launched(i) /\ outcome[i] # <<>>) =>
        /\ proc[i].st = "exited"
        /\ outcome[i][1].kind = "Success" <=> proc[i].rc = 0

(* C9: in a run that is no dry run, files are handled in discovery order,   *)
(* each at most once: one probe at most, one encoder launch at most and     *)
(* only after the probe gave a duration, a file is touched only when every  *)
(* earlier file has its single result, and at the end of the run every file *)
(* reached has exactly one result among Success, Skipped and Failed.        *)
C9_OncePerFileInOrder ==
    ~dry_run =>
      /\ \A i \in Files :
           /\ Len(probes[i]) <= 1
           /\ launches[i] <= 1
           /\ launches[i] = 1 => probes[i] = <<"ok">>
           /\ Launched(i) => launches[i] = 1
           /\ Len(outcome[i]) <= 1
           /\ \A k \in DOMAIN outcome[i] :
                outcome[i][k].kind \in {"Success", "Skipped", "Failed"}
           /\ (probes[i] # <<>> \/ outcome[i] # <<>>) =>
                /\ i <= idx
                /\ \A j \in Files : j < i => Len(probes[j]) = 1 /\ Len(outcome[j]) = 1
           /\ (pc \in {"complete", "aborted"} /\ i <= idx) => Len(outcome[i]) = 1
           /\ i < idx => Len(outcome[i]) = 1

C9_Witness ==
    /\ N = 2
    /\ pc = "complete"
    /\ outcome[1] = <<FailedWith(Text(1))>>
    /\ outcome[2] = <<Skipped>>
    /\ launches = <<1, 0>>

(* C10 as stated: the target of a launched encoder is never a discovered    *)
(* source and never the target of another file's encoder.                   *)
C10_TargetsDistinct ==
    \A i \in Files :
      Launched(i) =>
        /\ proc[i].target \notin Sources
        /\ \A j \in Files : (j # i /\ Launched(j)) => proc[j].target # proc[i].target

(* C10 as amended: the target of a launched encoder is never a discovered   *)
(* source, and two files share a target only when they lie in the same      *)
(* directory and their names differ in nothing but the extension.           *)
C10_TargetsCollideOnlyOnExtension ==
    \A i \in Files :
      Launched(i) =>
        /\ proc[i].target \notin Sources
        /\ \A j \in Files :
             (j # i /\ Launched(j) /\ proc[j].target = proc[i].target) =>
               /\ files_to_convert[i].dir = files_to_convert[j].dir
               /\ SplitBase(files_to_convert[i].name) = SplitBase(files_to_convert[j].name)

C10_Witness ==
    /\ N = 2
    /\ Launched(1)
    /\ Launched(2)
    /\ files_to_convert[1] # files_to_convert[2]
    /\ proc[1].target = proc[2].target
    /\ outcome[1] = <<Success>>

====
